---- MODULE Spec2Model ----
(***************************************************************************)
(* The general object store of git-odb (store/general/mod.rs): the Store   *)
(* with its atomically swappable SlotMapIndex snapshot, its handle         *)
(* counters, the SlotIndexMarker fingerprint, and the load/refresh         *)
(* protocol (load_next_indices, consolidate_with_disk_state) as executed   *)
(* by concurrent threads against a changing objects directory.             *)
(*                                                                         *)
(* A todo!() in the source is a panic: the call unwinds, dropping the path *)
(* guard it may hold, and delivers no Outcome.                             *)
(***************************************************************************)
EXTENDS Integers, Sequences, FiniteSets, TLC

\* ---------------------------------------------------------------- bounds
NumThreads == 2      \* threads calling load_next_indices
MaxHandles == 2      \* live Handle values
MaxPacks == 1        \* pack index files added to the objects directory
WordBits == 7        \* width of usize in the model
MaxLoaded == 3       \* largest loaded_indices value fed to state_id
MaxBumps == 256      \* generation bumps followed in SpecGeneration
MaxWarmBumps == 2    \* snapshot publications followed in SpecWarm
MaxIndexId == 1      \* largest IndexId of an IndexLookup
MaxOids == 3         \* object identifiers a pack index can list

\* ------------------------------------------------------- program constants
PtrAlign == 8        \* Arc::as_ptr yields word-aligned addresses
GenerationMod == 256 \* generation: u8

Word == 2 ^ WordBits
Threads == 1 .. NumThreads
Addresses == { a \in 1 .. (Word - 1) : a % PtrAlign = 0 }
RefreshModes == { "AfterAllIndicesLoaded", "Never" }
AlternateStates == { "none", "ok", "chain", "broken" }
ObjectsDir == "objects"
AlternateDir == "alternate"
NestedAlternateDir == "alternate of alternate"

VARIABLES
    index,                \* Store.index: the live SlotMapIndex snapshot
    path_lock,            \* Store.path mutex: 0 when free, else the holding thread
    num_handles_stable,   \* Store.num_handles_stable
    num_handles_unstable, \* Store.num_handles_unstable
    handles,              \* number of live Handle values
    pc,                   \* per thread: position inside load_next_indices
    args,                 \* per thread: refresh_mode, marker and loaded snapshot of its call in progress
    seen,                 \* per thread: the StateId passed to consolidate_with_disk_state
    result,               \* per thread: how its last call ended
    disk_packs,           \* pack index files in the objects directory
    disk_alt,             \* state of the alternates file
    probe,                \* SpecStateId: the two snapshots state_id is applied to
    held,                 \* SpecGeneration: a marker taken from a live snapshot
    held_at,              \* SpecGeneration: the number of bumps when held was taken
    bumps,                \* SpecGeneration: generation bumps so far
    at,                   \* SpecAt: the path given to Store::at and how the call ended
    find,                 \* SpecFind: the last call of a Find method on a Handle
    index_lookup          \* SpecLookup: an IndexLookup, the id looked up and the result

\* The variables of the store, its threads and its directory.
storeVars == << index, path_lock, num_handles_stable, num_handles_unstable, handles,
                pc, args, seen, result, disk_packs, disk_alt >>

\* The variables only SpecStateId and SpecGeneration change.
ghostVars == << probe, held, held_at, bumps, at, find, index_lookup >>

vars == << storeVars, ghostVars >>

\* ------------------------------------------------------------- store types

\* SlotMapIndex::default() allocated at address p, its loose_dbs Arc at lp.
DefaultSlotMapIndex(p, lp) ==
    [ ptr |-> p, slot_indices |-> << >>, generation |-> 0,
      next_index_to_load |-> 0, loaded_indices |-> 0,
      loose_ptr |-> lp, loose_dbs |-> << >> ]

\* Bitwise exclusive or of two machine words.
RECURSIVE BitXor(_, _)
BitXor(a, b) ==
    IF a = 0 THEN b
    ELSE IF b = 0 THEN a
    ELSE (((a % 2) + (b % 2)) % 2) + 2 * BitXor(a \div 2, b \div 2)

\* The product of state_id before it is reduced to the machine word.
StateIdProduct(lp, p, loaded) == BitXor(lp, p) * (loaded + 1)

\* SlotMapIndex::state_id on addresses and a counter value, wrapping.
StateIdOf(lp, p, loaded) == (StateIdProduct(lp, p, loaded)) % Word

\* SlotMapIndex::state_id of a snapshot.
state_id(ix) == StateIdOf(ix.loose_ptr, ix.ptr, ix.loaded_indices)

\* Option<SlotIndexMarker>
NoMarker == [ some |-> FALSE, generation |-> 0, state_id |-> 0 ]
Marker(g, s) == [ some |-> TRUE, generation |-> g, state_id |-> s ]

\* impl From<&Arc<SlotMapIndex>> for SlotIndexMarker
MarkerFrom(ix) == Marker(ix.generation, state_id(ix))

\* How a call of load_next_indices ended.
NotCalled == [ kind |-> "NotCalled", scanned |-> FALSE, indices |-> << >>,
               loose_dbs |-> << >>, marker |-> NoMarker ]
Running == [ NotCalled EXCEPT !.kind = "Running" ]
Panicked(scanned, paths) ==
    [ kind |-> "Panic", scanned |-> scanned, indices |-> << >>,
      loose_dbs |-> paths, marker |-> NoMarker ]
IoError == [ kind |-> "IoError", scanned |-> TRUE, indices |-> << >>,
             loose_dbs |-> << >>, marker |-> NoMarker ]

\* ------------------------------------------------------------ environment

\* crate::alternate::resolve on the objects directory: the ordered alternates,
\* or an error when the alternates file names a directory that does not exist.
AlternateResolve(alt) ==
    CASE alt = "none" -> [ ok |-> TRUE, paths |-> << >> ]
      [] alt = "ok" -> [ ok |-> TRUE, paths |-> << AlternateDir >> ]
      [] alt = "chain" -> [ ok |-> TRUE, paths |-> << AlternateDir, NestedAlternateDir >> ]
      [] OTHER -> [ ok |-> FALSE, paths |-> << >> ]

\* Another process writes a pack index file into the objects directory.
add_pack ==
    /\ disk_packs < MaxPacks
    /\ disk_packs' = disk_packs + 1
    /\ UNCHANGED << index, path_lock, num_handles_stable, num_handles_unstable,
                    handles, pc, args, seen, result, disk_alt,
                    ghostVars >>

\* What an edit can turn the alternates file into: it is created naming an
\* existing or a missing directory, the directory it names can get an
\* alternates file of its own, and a directory it names can go missing.
AlternateEdits(alt) ==
    CASE alt = "none" -> { "ok", "broken" }
      [] alt = "ok" -> { "chain", "broken" }
      [] alt = "chain" -> { "broken" }
      [] OTHER -> { }

\* Another process creates the alternates file or removes a directory it names.
edit_alternates ==
    /\ \E a \in AlternateEdits(disk_alt) : disk_alt' = a
    /\ UNCHANGED << index, path_lock, num_handles_stable, num_handles_unstable,
                    handles, pc, args, seen, result, disk_packs,
                    ghostVars >>

\* ----------------------------------------------------------------- handles

\* Store::to_handle: wraps a clone of the shared Store reference.
to_handle ==
    /\ handles < MaxHandles
    /\ handles' = handles + 1
    /\ UNCHANGED << index, path_lock, num_handles_stable, num_handles_unstable,
                    pc, args, seen, result, disk_packs, disk_alt,
                    ghostVars >>

\* Handle::clone (derived): clones the state field.
clone_handle ==
    /\ handles >= 1
    /\ handles < MaxHandles
    /\ handles' = handles + 1
    /\ UNCHANGED << index, path_lock, num_handles_stable, num_handles_unstable,
                    pc, args, seen, result, disk_packs, disk_alt,
                    ghostVars >>

\* Dropping a Handle: there is no Drop impl, only the field is released.
drop_handle ==
    /\ handles >= 1
    /\ handles' = handles - 1
    /\ UNCHANGED << index, path_lock, num_handles_stable, num_handles_unstable,
                    pc, args, seen, result, disk_packs, disk_alt,
                    ghostVars >>

\* ------------------------------------------------------ load_next_indices

\* The markers a caller can supply: none, one taken from the live snapshot,
\* one it took earlier and kept, or SlotIndexMarker::default().
CallerMarkers == { NoMarker, MarkerFrom(index), held, Marker(0, 0) }

\* The locals of a thread that is not inside load_next_indices.
NoArgs == [ refresh_mode |-> "Never", marker |-> NoMarker,
            index |-> DefaultSlotMapIndex(0, 0) ]

\* load_next_indices that answers RefreshMode::Never with a marker equal to the
\* live snapshot's by NoMoreIndices before it looks at loose_dbs.
load_next_indices_never(t, refresh_mode, marker) ==
    /\ pc[t] = "idle"
    /\ IF refresh_mode = "Never" /\ marker = MarkerFrom(index)
       THEN /\ result' = [ result EXCEPT ![t] = [ NotCalled EXCEPT !.kind = "NoMoreIndices" ] ]
            /\ UNCHANGED << args, seen, pc >>
       ELSE /\ args' = [ args EXCEPT ![t] = [ refresh_mode |-> refresh_mode,
                                              marker |-> marker, index |-> index ] ]
            /\ result' = [ result EXCEPT ![t] = Running ]
            /\ IF index.loose_dbs = << >>
               THEN /\ seen' = [ seen EXCEPT ![t] = state_id(index) ]
                    /\ pc' = [ pc EXCEPT ![t] = "lock" ]
               ELSE /\ pc' = [ pc EXCEPT ![t] = "todo" ]
                    /\ UNCHANGED seen
    /\ UNCHANGED << index, path_lock, num_handles_stable, num_handles_unstable,
                    handles, disk_packs, disk_alt, ghostVars >>

\* load_next_indices taking the path mutex before it loads the snapshot.
load_next_indices_locked(t, refresh_mode, marker) ==
    /\ pc[t] = "idle"
    /\ path_lock = 0
    /\ args' = [ args EXCEPT ![t] = [ refresh_mode |-> refresh_mode, marker |-> marker,
                                      index |-> index ] ]
    /\ result' = [ result EXCEPT ![t] = Running ]
    /\ IF index.loose_dbs = << >>
       THEN /\ seen' = [ seen EXCEPT ![t] = state_id(index) ]
            /\ pc' = [ pc EXCEPT ![t] = "lock" ]
       ELSE /\ pc' = [ pc EXCEPT ![t] = "todo" ]
            /\ UNCHANGED seen
    /\ UNCHANGED << index, path_lock, num_handles_stable, num_handles_unstable,
                    handles, disk_packs, disk_alt, ghostVars >>

\* load_next_indices up to its branch: loads the snapshot without taking the
\* path mutex; on a cold snapshot it enters consolidate_with_disk_state with the
\* snapshot's state_id, otherwise it stands before todo!().
load_next_indices(t, refresh_mode, marker) ==
    /\ pc[t] = "idle"
    /\ args' = [ args EXCEPT ![t] = [ refresh_mode |-> refresh_mode, marker |-> marker,
                                      index |-> index ] ]
    /\ result' = [ result EXCEPT ![t] = Running ]
    /\ IF index.loose_dbs = << >>
       THEN /\ seen' = [ seen EXCEPT ![t] = state_id(index) ]
            /\ pc' = [ pc EXCEPT ![t] = "lock" ]
       ELSE /\ pc' = [ pc EXCEPT ![t] = "todo" ]
            /\ UNCHANGED seen
    /\ UNCHANGED << index, path_lock, num_handles_stable, num_handles_unstable,
                    handles, disk_packs, disk_alt, ghostVars >>

\* A lock that is granted while another thread holds it.
lock_path_unguarded(t) ==
    /\ pc[t] = "lock"
    /\ path_lock' = t
    /\ pc' = [ pc EXCEPT ![t] = "locked" ]
    /\ UNCHANGED << index, num_handles_stable, num_handles_unstable, handles,
                    args, seen, result, disk_packs, disk_alt, ghostVars >>

\* consolidate_with_disk_state: self.path.lock()
lock_path(t) ==
    /\ pc[t] = "lock"
    /\ path_lock = 0
    /\ path_lock' = t
    /\ pc' = [ pc EXCEPT ![t] = "locked" ]
    /\ UNCHANGED << index, num_handles_stable, num_handles_unstable, handles,
                    args, seen, result, disk_packs, disk_alt, ghostVars >>

\* ConsolidateOutcome with a resolve error read as "no alternates": the body
\* goes on with the objects directory alone.
ConsolidateOutcomeSwallowed(seen_id, live_id, resolved) ==
    IF seen_id # live_id
    THEN Panicked(FALSE, << >>)
    ELSE Panicked(TRUE, << ObjectsDir >> \o resolved.paths)

\* ConsolidateOutcome with the objects directory pushed behind the alternates.
ConsolidateOutcomeAppended(seen_id, live_id, resolved) ==
    IF seen_id # live_id
    THEN Panicked(FALSE, << >>)
    ELSE IF resolved.ok
         THEN Panicked(TRUE, resolved.paths \o << ObjectsDir >>)
         ELSE IoError

\* consolidate_with_disk_state under the mutex: a fingerprint other than seen
\* reaches todo!(); a resolve error is returned through `?`; otherwise the
\* objects directory is inserted at position 0 and todo!() is reached.
ConsolidateOutcome(seen_id, live_id, resolved) ==
    IF seen_id # live_id
    THEN Panicked(FALSE, << >>)
    ELSE IF resolved.ok
         THEN Panicked(TRUE, << ObjectsDir >> \o resolved.paths)
         ELSE IoError

\* How the call of a thread ends from where it stands: the body of
\* consolidate_with_disk_state under the mutex, or the todo!() that ends
\* load_next_indices.
CallOutcome(t) ==
    IF pc[t] = "locked"
    THEN ConsolidateOutcome(seen[t], state_id(index), AlternateResolve(disk_alt))
    ELSE Panicked(FALSE, << >>)

\* The rest of a call: its outcome goes to the caller, its locals are gone, and
\* the path guard, if held, is dropped, on return and on unwinding alike.
finish_call(t) ==
    /\ pc[t] \in { "locked", "todo" }
    /\ result' = [ result EXCEPT ![t] = CallOutcome(t) ]
    /\ pc' = [ pc EXCEPT ![t] = "idle" ]
    /\ args' = [ args EXCEPT ![t] = NoArgs ]
    /\ seen' = [ seen EXCEPT ![t] = 0 ]
    /\ path_lock' = IF path_lock = t THEN 0 ELSE path_lock
    /\ UNCHANGED << index, num_handles_stable, num_handles_unstable, handles,
                    disk_packs, disk_alt, ghostVars >>

\* ------------------------------------------------- allocation of snapshots

\* The addresses of the allocations kept alive by Store.index and by the
\* snapshots that threads inside load_next_indices have loaded.
LiveAddresses ==
    { index.ptr, index.loose_ptr }
        \cup { args[t].index.ptr : t \in { u \in Threads : pc[u] # "idle" } }
        \cup { args[t].index.loose_ptr : t \in { u \in Threads : pc[u] # "idle" } }

\* The lowest address outside used.
FreshAddress(used) ==
    CHOOSE a \in Addresses \ used : \A b \in Addresses \ used : a <= b

\* ------------------------------------------------------------ specification

NoObservation == [ panic |-> FALSE, value |-> 0 ]
NoProbe == [ lp |-> 0, p1 |-> 0, n1 |-> 0, id1 |-> NoObservation,
             p2 |-> 0, n2 |-> 0, id2 |-> NoObservation, step |-> 0 ]

\* Store::at on an existing directory: the default snapshot and its loose_dbs
\* list are the first two allocations.
StoreInit ==
    /\ index = DefaultSlotMapIndex(FreshAddress({ }), FreshAddress({ FreshAddress({ }) }))
    /\ path_lock = 0
    /\ num_handles_stable = 0
    /\ num_handles_unstable = 0
    /\ handles = 0
    /\ pc = [ t \in Threads |-> "idle" ]
    /\ args = [ t \in Threads |-> NoArgs ]
    /\ seen = [ t \in Threads |-> 0 ]
    /\ result = [ t \in Threads |-> NotCalled ]
    /\ disk_packs = 0
    /\ disk_alt = "none"

\* No Find method has been called on a Handle.
NoFind == [ op |-> "none", id |-> 0, present |-> FALSE, slot |-> 0, outcome |-> "NotCalled" ]

\* No IndexLookup is under examination.
NoLookup == [ step |-> 0 ]

\* Store::at has returned Ok for an existing directory.
Constructed == [ path |-> "dir", outcome |-> "Ok" ]

GhostInit ==
    /\ probe = NoProbe
    /\ held = NoMarker
    /\ held_at = 0
    /\ bumps = 0
    /\ at = Constructed
    /\ find = NoFind
    /\ index_lookup = NoLookup

Init == StoreInit /\ GhostInit

Call(t) ==
    \E refresh_mode \in RefreshModes : \E marker \in CallerMarkers :
        load_next_indices(t, refresh_mode, marker)

\* A call under RefreshMode::AfterAllIndicesLoaded.
RefreshingCall(t) ==
    \E marker \in CallerMarkers :
        load_next_indices(t, "AfterAllIndicesLoaded", marker)

ThreadStep(t) ==
    \/ Call(t)
    \/ lock_path(t)
    \/ finish_call(t)

Next ==
    \/ to_handle
    \/ clone_handle
    \/ drop_handle
    \/ add_pack
    \/ edit_alternates
    \/ \E t \in Threads : Call(t)
    \/ \E t \in Threads : lock_path(t)
    \/ \E t \in Threads : finish_call(t)

Spec == Init /\ [][Next]_vars

\* Every thread that can take a step of its call eventually takes one, and
\* every caller keeps calling under RefreshMode::AfterAllIndicesLoaded.
FairSpec ==
    /\ Spec
    /\ \A t \in Threads : WF_vars(ThreadStep(t))
    /\ \A t \in Threads : SF_vars(RefreshingCall(t))

\* ----------------------------------------------- state_id as a function

\* What evaluating state_id can yield: the wrapped product, or, when the
\* multiplication overflows in a build with overflow checks, a panic.
StateIdOutcomes(lp, p, loaded) ==
    { [ panic |-> FALSE, value |-> StateIdOf(lp, p, loaded) ] }
        \cup ( IF StateIdProduct(lp, p, loaded) >= Word
               THEN { [ panic |-> TRUE, value |-> 0 ] }
               ELSE { } )

\* Two snapshots of one generation sharing the loose_dbs list at lp: S1 at p1,
\* read when the shared loaded_indices was n1, and S2 at p2, read at n2 >= n1.
\* The instances may be one and the same (p1 = p2).
ProbeInput(lp, p1, n1, p2, n2) ==
    [ NoProbe EXCEPT !.lp = lp, !.p1 = p1, !.n1 = n1, !.p2 = p2, !.n2 = n2 ]

InitStateId ==
    /\ StoreInit
    /\ \E lp \in Addresses : \E p1 \in Addresses \ { lp } : \E p2 \in Addresses \ { lp } :
         \E n1 \in 0 .. MaxLoaded : \E n2 \in n1 .. MaxLoaded :
             probe = ProbeInput(lp, p1, n1, p2, n2)
    /\ held = NoMarker
    /\ held_at = 0
    /\ bumps = 0
    /\ at = Constructed
    /\ find = NoFind
    /\ index_lookup = NoLookup

\* S1.state_id()
observe_first ==
    /\ probe.step = 0
    /\ \E o \in StateIdOutcomes(probe.lp, probe.p1, probe.n1) :
           probe' = [ probe EXCEPT !.id1 = o, !.step = 1 ]
    /\ UNCHANGED << storeVars, held, held_at, bumps, at, find, index_lookup >>

\* S2.state_id(), after loaded_indices went from n1 to n2
observe_second ==
    /\ probe.step = 1
    /\ \E o \in StateIdOutcomes(probe.lp, probe.p2, probe.n2) :
           probe' = [ probe EXCEPT !.id2 = o, !.step = 2 ]
    /\ UNCHANGED << storeVars, held, held_at, bumps, at, find, index_lookup >>

NextStateId ==
    \/ observe_first
    \/ observe_second

SpecStateId == InitStateId /\ [][NextStateId]_vars

\* ------------------------------------------------- generations and markers

\* The generation tag of the snapshot that follows one tagged g: the next
\* value of a u8.
NextGeneration(g) == (g + 1) % GenerationMod

\* A compaction, which may happen only while no handle requires stable pack
\* indices, publishes a wholly new snapshot of the next generation, with fresh
\* counters, by an atomic swap of Store.index; the snapshot it replaces stays
\* as it is for whoever still holds it.
compact_upto(limit) ==
    /\ bumps < limit
    /\ num_handles_stable = 0
    /\ LET p == FreshAddress(LiveAddresses)
           lp == FreshAddress(LiveAddresses \cup { p })
       IN index' = [ DefaultSlotMapIndex(p, lp) EXCEPT
                       !.generation = NextGeneration(index.generation),
                       !.loose_dbs = << ObjectsDir >> ]
    /\ bumps' = bumps + 1
    /\ UNCHANGED << path_lock, num_handles_stable, num_handles_unstable, handles,
                    pc, args, seen, result, disk_packs, disk_alt,
                    probe, held, held_at, at, find, index_lookup >>

\* SlotIndexMarker::from(&index) on the live snapshot, kept by a caller.
take_marker ==
    /\ ~ held.some
    /\ held' = MarkerFrom(index)
    /\ held_at' = bumps
    /\ UNCHANGED << storeVars, probe, bumps, at, find, index_lookup >>

compact == compact_upto(MaxBumps)

NextGenerationStep ==
    \/ compact
    \/ take_marker

SpecGeneration == Init /\ [][NextGenerationStep]_vars

\* ------------------------------------ calls against published snapshots

publish == compact_upto(MaxWarmBumps)

NextWarm ==
    \/ publish
    \/ take_marker
    \/ \E t \in Threads : Call(t)
    \/ \E t \in Threads : lock_path(t)
    \/ \E t \in Threads : finish_call(t)

SpecWarm == Init /\ [][NextWarm]_vars

\* ---------------------------------------------------------------- Store::at

\* What objects_dir can be: an existing directory, a regular file, or nothing.
PathKinds == { "dir", "file", "missing" }

\* No Store exists: nothing is allocated.
NoStore == DefaultSlotMapIndex(0, 0)

\* Store::at without the is_dir test.
StoreAtUnchecked(kind) ==
    [ ok |-> TRUE,
      index |-> DefaultSlotMapIndex(FreshAddress({ }), FreshAddress({ FreshAddress({ }) })) ]

\* Store::at: an error unless objects_dir.is_dir(), else a Store holding
\* SlotMapIndex::default() in fresh allocations.
StoreAt(kind) ==
    IF kind # "dir"
    THEN [ ok |-> FALSE, index |-> NoStore ]
    ELSE [ ok |-> TRUE,
           index |-> DefaultSlotMapIndex(FreshAddress({ }), FreshAddress({ FreshAddress({ }) })) ]

\* Before Store::at is called on a path of some kind.
InitAt ==
    /\ index = NoStore
    /\ path_lock = 0
    /\ num_handles_stable = 0
    /\ num_handles_unstable = 0
    /\ handles = 0
    /\ pc = [ t \in Threads |-> "idle" ]
    /\ args = [ t \in Threads |-> NoArgs ]
    /\ seen = [ t \in Threads |-> 0 ]
    /\ result = [ t \in Threads |-> NotCalled ]
    /\ disk_packs = 0
    /\ disk_alt = "none"
    /\ probe = NoProbe
    /\ held = NoMarker
    /\ held_at = 0
    /\ bumps = 0
    /\ at \in [ path : PathKinds, outcome : { "NotCalled" } ]
    /\ find = NoFind
    /\ index_lookup = NoLookup

\* The call of Store::at.
store_at ==
    /\ at.outcome = "NotCalled"
    /\ at' = [ at EXCEPT !.outcome = IF StoreAt(at.path).ok THEN "Ok" ELSE "Err" ]
    /\ index' = StoreAt(at.path).index
    /\ path_lock' = 0
    /\ num_handles_stable' = 0
    /\ num_handles_unstable' = 0
    /\ UNCHANGED << handles, pc, args, seen, result, disk_packs, disk_alt,
                    probe, held, held_at, bumps, find, index_lookup >>

\* Only a Store that was constructed can be used.
NextAt ==
    \/ store_at
    \/ ( at.outcome = "Ok" /\ Next )

SpecAt == InitAt /\ [][NextAt]_vars

\* ------------------------------------------------------------ Find for Handle

\* Object identifiers: pack k holds object k, the last identifier is in no pack.
ObjectIds == 1 .. (MaxPacks + 1)

\* The identifiers a pack index file lists.
PackObjects(k) == { k }

\* The identifiers found in the pack indices a snapshot has loaded.
LoadedObjects(ix) ==
    UNION { PackObjects(ix.slot_indices[i]) : i \in 1 .. ix.loaded_indices }

\* A refresh publishes a wholly new snapshot of the next generation that lists
\* the pack indices of the objects directory, all of them loaded.
publish_loaded ==
    /\ bumps < MaxWarmBumps
    /\ LET p == FreshAddress(LiveAddresses)
           lp == FreshAddress(LiveAddresses \cup { p })
       IN index' = [ DefaultSlotMapIndex(p, lp) EXCEPT
                       !.generation = NextGeneration(index.generation),
                       !.slot_indices = [ i \in 1 .. disk_packs |-> i ],
                       !.next_index_to_load = disk_packs,
                       !.loaded_indices = disk_packs,
                       !.loose_dbs = << ObjectsDir >> ]
    /\ bumps' = bumps + 1
    /\ UNCHANGED << path_lock, num_handles_stable, num_handles_unstable, handles,
                    pc, args, seen, result, disk_packs, disk_alt,
                    probe, held, held_at, at, find, index_lookup >>

\* The body shared by the Find methods of Handle: todo!().
FindOutcome(op, id) == "Panic"

\* A Find method called on a live Handle with an identifier.
find_call(op, id) ==
    /\ handles >= 1
    /\ find' = [ op |-> op, id |-> id,
                 present |-> id \in LoadedObjects(index),
                 slot |-> IF id \in LoadedObjects(index) THEN id ELSE 0,
                 outcome |-> FindOutcome(op, id) ]
    /\ UNCHANGED << storeVars, probe, held, held_at, bumps, at, index_lookup >>

\* Handle::contains
contains == \E id \in ObjectIds : find_call("contains", id)

\* Handle::try_find_cached
try_find_cached == \E id \in ObjectIds : find_call("try_find_cached", id)

\* Handle::location_by_oid
location_by_oid == \E id \in ObjectIds : find_call("location_by_oid", id)

NextFind ==
    \/ add_pack
    \/ publish_loaded
    \/ to_handle
    \/ clone_handle
    \/ drop_handle
    \/ contains
    \/ try_find_cached
    \/ location_by_oid

SpecFind == Init /\ [][NextFind]_vars

\* ----------------------------------------------------- IndexLookup::lookup

Oids == 1 .. MaxOids
IndexIds == 0 .. MaxIndexId

\* The pack index file's own lookup: the position of the identifier among
\* the identifiers the file lists, in their order, if it is listed.
PackIndexLookup(index_file, object_id) ==
    IF object_id \in index_file
    THEN [ some |-> TRUE, position |-> Cardinality({ o \in index_file : o < object_id }) ]
    ELSE [ some |-> FALSE, position |-> 0 ]

\* The Option returned by IndexLookup::lookup.
NoneFound == [ some |-> FALSE, pack_id |-> [ index |-> 0, multipack_index |-> "None" ],
               object_index_in_pack |-> 0, data |-> "None" ]

\* IndexLookup::lookup that opens the pack data file on a hit.
lookup_loading(self, object_id) ==
    IF self.kind = "Single"
    THEN IF PackIndexLookup(self.index, object_id).some
         THEN [ panic |-> FALSE,
                found |-> [ some |-> TRUE,
                            pack_id |-> [ index |-> self.id, multipack_index |-> "None" ],
                            object_index_in_pack |->
                                PackIndexLookup(self.index, object_id).position,
                            data |-> "Some" ],
                after |-> [ self EXCEPT !.data = "Some" ] ]
         ELSE [ panic |-> FALSE, found |-> NoneFound, after |-> self ]
    ELSE [ panic |-> TRUE, found |-> NoneFound, after |-> self ]

\* IndexLookup::lookup: for Single, the pack index's lookup mapped to the
\* PackId of this index and a reference to its data slot; for Multi, todo!().
lookup(self, object_id) ==
    IF self.kind = "Single"
    THEN IF PackIndexLookup(self.index, object_id).some
         THEN [ panic |-> FALSE,
                found |-> [ some |-> TRUE,
                            pack_id |-> [ index |-> self.id, multipack_index |-> "None" ],
                            object_index_in_pack |->
                                PackIndexLookup(self.index, object_id).position,
                            data |-> self.data ],
                after |-> self ]
         ELSE [ panic |-> FALSE, found |-> NoneFound, after |-> self ]
    ELSE [ panic |-> TRUE, found |-> NoneFound, after |-> self ]

\* An IndexLookup of either kind, with any id, any listed identifiers and a
\* data slot that is loaded or not, and the identifier to look up.
InitLookup ==
    /\ StoreInit
    /\ probe = NoProbe
    /\ held = NoMarker
    /\ held_at = 0
    /\ bumps = 0
    /\ at = Constructed
    /\ find = NoFind
    /\ \E kind \in { "Single", "Multi" } : \E id \in IndexIds : \E index_file \in SUBSET Oids :
         \E data \in { "None", "Some" } : \E object_id \in Oids :
             index_lookup = [ step |-> 1,
                              self |-> [ kind |-> kind, id |-> id, index |-> index_file,
                                         data |-> data ],
                              object_id |-> object_id,
                              panic |-> FALSE,
                              found |-> NoneFound,
                              after |-> [ kind |-> kind, id |-> id, index |-> index_file,
                                          data |-> data ] ]

\* The call self.lookup(object_id).
lookup_call ==
    /\ index_lookup.step = 1
    /\ index_lookup' =
          [ index_lookup EXCEPT
              !.step = 2,
              !.panic = lookup(index_lookup.self, index_lookup.object_id).panic,
              !.found = lookup(index_lookup.self, index_lookup.object_id).found,
              !.after = lookup(index_lookup.self, index_lookup.object_id).after ]
    /\ UNCHANGED << storeVars, probe, held, held_at, bumps, at, find >>

NextLookup == lookup_call

SpecLookup == InitLookup /\ [][NextLookup]_vars

\* ------------------------------------------------------------------ claims

\* C1: the two handle counters together count the live handles, each its own
\* kind, and neither is ever negative. Specification: Spec.
C1_CountersCountLiveHandles ==
    /\ num_handles_stable >= 0
    /\ num_handles_unstable >= 0
    /\ num_handles_stable + num_handles_unstable = handles

\* C2: for two snapshots of one generation with the same loose_dbs list, a
\* strictly larger loaded_indices at the second evaluation of state_id gives a
\* different state_id. Specification: SpecStateId.
C2_StateIdChangesWithLoaded ==
    ( /\ probe.step = 2
      /\ ~ probe.id1.panic
      /\ ~ probe.id2.panic
      /\ probe.n2 > probe.n1 )
        => probe.id2.value # probe.id1.value

C5_ColdStartReturnsReplace ==
    [][ \A t \in Threads :
          ( /\ pc[t] # "idle"
            /\ pc'[t] = "idle"
            /\ args[t].refresh_mode = "AfterAllIndicesLoaded"
            /\ args[t].marker = NoMarker
            /\ disk_packs = 0
            /\ disk_alt = "none" )
              => /\ result'[t].kind = "Replace"
                 /\ Len(result'[t].indices) = 0
                 /\ Len(result'[t].loose_dbs) = 1 ]_vars

\* C6: load_next_indices(Never, marker) with a marker equal to the live
\* snapshot's returns NoMoreIndices, rescans nothing and publishes nothing.
\* Specification: Spec.
C6_NeverModeReturnsNoMoreIndices ==
    [][ \A t \in Threads :
          ( /\ pc[t] # "idle"
            /\ pc'[t] = "idle"
            /\ args[t].refresh_mode = "Never"
            /\ args[t].marker = MarkerFrom(index) )
              => /\ result'[t].kind = "NoMoreIndices"
                 /\ ~ result'[t].scanned
                 /\ index' = index ]_vars

\* C7: a call that loaded a snapshot recording loose databases returns
\* Replace when its marker is absent, of another generation, or of the same
\* generation with another state_id. Specification: SpecWarm.
C7_WarmCallReturnsReplace ==
    [][ \A t \in Threads :
          ( /\ pc[t] # "idle"
            /\ pc'[t] = "idle"
            /\ args[t].index.loose_dbs # << >>
            /\ \/ ~ args[t].marker.some
               \/ args[t].marker.generation # args[t].index.generation
               \/ args[t].marker.state_id # state_id(args[t].index) )
              => result'[t].kind = "Replace" ]_vars

\* C8: when alternates resolution fails inside consolidate_with_disk_state the
\* call returns an I/O error, Store.index stays as it was (so no snapshot with
\* a shortened loose_dbs list appears) and the path mutex is released.
\* Specification: Spec.
C8_ResolveFailureIsIoError ==
    [][ \A t \in Threads :
          ( /\ pc[t] = "locked"
            /\ pc'[t] = "idle"
            /\ seen[t] = state_id(index)
            /\ ~ AlternateResolve(disk_alt).ok )
              => /\ result'[t].kind = "IoError"
                 /\ index' = index
                 /\ path_lock' = 0 ]_vars

\* C8 witness: a call has ended in an I/O error on a broken alternates file.
C8_Witness ==
    \E t \in Threads :
        /\ pc[t] = "idle"
        /\ result[t].kind = "IoError"
        /\ disk_alt = "broken"
        /\ index.loose_dbs = << >>

\* C9: a thread inside load_next_indices keeps the snapshot it loaded, field
\* for field, whatever is swapped into Store.index meanwhile, and an idle
\* thread can always load the snapshot, whoever holds the path mutex.
\* Specification: SpecWarm.
C9_ReaderKeepsSnapshot ==
    [][ /\ \A t \in Threads : pc[t] = "idle" => ENABLED Call(t)
        /\ \A t \in Threads :
              ( pc[t] # "idle" /\ pc'[t] # "idle" )
                  => args'[t].index = args[t].index ]_vars

\* C9 witness: a thread is inside its call with a snapshot that has since been
\* swapped out, while another thread holds the path mutex.
C9_Witness ==
    \E t \in Threads : \E u \in Threads \ { t } :
        /\ pc[t] = "lock"
        /\ path_lock = u
        /\ args[t].index.ptr # index.ptr
        /\ args[t].index.generation # index.generation

\* C10: with an alternates chain that resolves, once a pack is in the
\* directory, callers that keep calling load_next_indices eventually receive a
\* Replace holding an index. Specification: FairSpec.
C10_EventuallyFindsNewPack ==
    [](disk_alt # "broken")
        => ( ( disk_packs > 0 )
               ~> ( \E t \in Threads :
                      /\ result[t].kind = "Replace"
                      /\ Len(result[t].indices) > 0 ) )

\* C11: Store::at returns an error and constructs no store when the path is
\* not a directory; for an existing directory it succeeds with a store whose
\* snapshot is SlotMapIndex::default() (no slot indices, generation 0, both
\* progress counters 0, no loose databases) and whose two handle counters are
\* 0. Specification: SpecAt.
C11_AtChecksDirectory ==
    [][ ( at.outcome = "NotCalled" /\ at'.outcome # "NotCalled" )
          => IF at.path = "dir"
             THEN /\ at'.outcome = "Ok"
                  /\ index'.ptr \in Addresses
                  /\ index'.loose_ptr \in Addresses \ { index'.ptr }
                  /\ index'.slot_indices = << >>
                  /\ index'.generation = 0
                  /\ index'.next_index_to_load = 0
                  /\ index'.loaded_indices = 0
                  /\ index'.loose_dbs = << >>
                  /\ num_handles_stable' = 0
                  /\ num_handles_unstable' = 0
             ELSE /\ at'.outcome = "Err"
                  /\ index' = NoStore ]_vars

\* C11 witness: Store::at was called on a regular file and returned an error
\* without constructing a store.
C11_Witness ==
    /\ at.path = "file"
    /\ at.outcome = "Err"
    /\ index = NoStore

\* C12: for an object identifier present in a loaded pack index of the live
\* snapshot, Handle::contains returns true, location_by_oid returns a Location
\* referencing that pack's slot, and try_find_cached returns the decoded
\* bytes, on every call. Specification: SpecFind.
C12_FindRoundTrip ==
    find.present
        => /\ find.op = "contains" => find.outcome = "true"
           /\ find.op = "location_by_oid" => find.outcome = "Location"
           /\ find.op = "try_find_cached" => find.outcome = "Found"

\* C13: when the live snapshot records no loose databases, load_next_indices
\* enters consolidate_with_disk_state with that snapshot's state_id, whatever
\* the marker (absent, matching or stale) and the refresh mode, and a call
\* that began so ends only from inside consolidate_with_disk_state and never
\* with NoMoreIndices. Specification: Spec.
C13_ColdStartAlwaysConsolidates ==
    [][ /\ \A t \in Threads :
              ( pc[t] = "idle" /\ index.loose_dbs = << >> /\ result'[t] # result[t] )
                  => /\ pc'[t] = "lock"
                     /\ seen'[t] = state_id(index)
                     /\ args'[t].index = index
                     /\ result'[t].kind = "Running"
        /\ \A t \in Threads :
              ( pc[t] # "idle" /\ pc'[t] = "idle" /\ args[t].index.loose_dbs = << >> )
                  => /\ pc[t] = "locked"
                     /\ result'[t].kind # "NoMoreIndices" ]_vars

\* C13 witness: a call with RefreshMode::Never and a marker equal to the cold
\* live snapshot's holds the path mutex inside consolidate_with_disk_state,
\* while a call with a stale marker stands before the mutex.
C13_Witness ==
    \E t \in Threads : \E u \in Threads \ { t } :
        /\ pc[t] = "locked"
        /\ args[t].refresh_mode = "Never"
        /\ args[t].index.loose_dbs = << >>
        /\ args[t].marker = MarkerFrom(args[t].index)
        /\ seen[t] = state_id(args[t].index)
        /\ pc[u] = "lock"
        /\ args[u].marker.some
        /\ args[u].marker # MarkerFrom(args[u].index)

\* C14: a call that holds the path mutex and finds the live state_id different
\* from seen ends without resolving alternates and without publishing
\* (Store.index and the handle counters stay as they are), and what it
\* returns is an Outcome, neither an error nor a panic. Specification: SpecWarm.
C14_RaceLossIsNotAnError ==
    [][ \A t \in Threads :
          ( pc[t] = "locked" /\ pc'[t] = "idle" /\ seen[t] # state_id(index) )
              => /\ ~ result'[t].scanned
                 /\ index' = index
                 /\ num_handles_stable' = num_handles_stable
                 /\ num_handles_unstable' = num_handles_unstable
                 /\ result'[t].kind \in { "Replace", "NoMoreIndices" } ]_vars

C18_SingleLookup ==
    ( index_lookup.step = 2 /\ index_lookup.self.kind = "Single" )
        => /\ ~ index_lookup.panic
           /\ index_lookup.found.some <=> index_lookup.object_id \in index_lookup.self.index
           /\ index_lookup.found.some =>
                 /\ index_lookup.found.pack_id.index = index_lookup.self.id
                 /\ index_lookup.found.pack_id.multipack_index = "None"
                 /\ index_lookup.found.object_index_in_pack =
                        PackIndexLookup(index_lookup.self.index,
                                        index_lookup.object_id).position
                 /\ index_lookup.found.data = index_lookup.self.data
           /\ index_lookup.after = index_lookup.self

\* C18 witness: a lookup in a Single index whose data file is not loaded hit
\* an identifier at a position other than the index id.
C18_Witness ==
    /\ index_lookup.step = 2
    /\ index_lookup.self.kind = "Single"
    /\ index_lookup.self.data = "None"
    /\ index_lookup.found.some
    /\ index_lookup.found.object_index_in_pack # index_lookup.found.pack_id.index
    /\ index_lookup.after.data = "None"

\* C20: when a thread that loaded the cold snapshot has run its consolidation
\* through to the point of publication, every other thread that loaded the
\* same snapshot, hence carries the same seen, and has yet to acquire the
\* path mutex, finds the live state_id different from its seen when it
\* acquires it. Specification: Spec.
C20_OnePublisherPerFingerprint ==
    [][ \A t \in Threads : \A u \in Threads \ { t } :
          ( /\ pc[t] = "locked"
            /\ pc'[t] = "idle"
            /\ result'[t].scanned
            /\ result'[t].kind # "IoError"
            /\ pc[u] = "lock"
            /\ args[u].index = args[t].index
            /\ seen[u] = seen[t] )
              => seen[u] # state_id(index') ]_vars

====
